---- MODULE Spec2Model ----
(***************************************************************************)
(* Model of mfaliquot.application: the AliquotSequence record, the _Heap   *)
(* wrapper over heapq, the _SequencesData store (lock file, AllSeq.json,   *)
(* AllSeq.txt, id map, priority heap) and the processes that use it.       *)
(*                                                                         *)
(* Python positions are 0-based; sequences here are 1-based, so the item   *)
(* at Python position i of a list h is h[i + 1] (operator At).             *)
(***************************************************************************)
EXTENDS Integers, Sequences, FiniteSets, TLC

\* ------------------------------------------------------------------ bounds
\* longest heap list a load or a push may build (pushes beyond it are not explored)
MaxHeap == 3
\* largest n handed to pop_n_todo
MaxN == 2
\* longest seqs list handed to drop
MaxDrop == 2

\* ------------------------------------------------------- program constants
\* the sabotaged seq of a heap entry (Python's None; never a sequence id)
None == 0
\* __enter__: sleep period in seconds between two attempts
period == 1

\* --------------------------------------------------------------- universes
Procs == {1, 2}
Seqs == {1, 2}
Prios == {0, 1}
\* a raw line feed in a file's text
NL == "NL"
\* strings are sequences of characters
EmptyStr == <<>>

\* ------------------------------------------------------------ small helpers
At(h, i) == h[i + 1]

Put(h, i, x) == [h EXCEPT ![i + 1] = x]

Swap(h, i, j) == [h EXCEPT ![i + 1] = h[j + 1], ![j + 1] = h[i + 1]]

Range(s) == {s[i] : i \in 1..Len(s)}

RECURSIVE SeqsUpTo(_, _)
SeqsUpTo(S, n) ==
    IF n = 0 THEN {<<>>}
    ELSE LET shorter == SeqsUpTo(S, n - 1)
         IN shorter \cup {Append(s, x) : s \in {t \in shorter : Len(t) = n - 1}, x \in S}

\* all orders in which the elements of a set can be iterated
RECURSIVE Orders(_)
Orders(S) ==
    IF S = {} THEN {<<>>}
    ELSE UNION {{<<x>> \o t : t \in Orders(S \ {x})} : x \in S}

\* --------------------------------------------------------- AliquotSequence
\* a record object: the fields of AliquotSequence._map the store reads
AliquotSequence(seq, size, res, priority, time) ==
    [seq |-> seq, size |-> size, index |-> 1, factors |-> <<"f">>,
     res |-> res, time |-> time, priority |-> priority]

\* AliquotSequence.is_valid: seq, size > 0, index > 0 and factors are all set
is_valid(ali) ==
    /\ ali.seq # None
    /\ ali.size > 0
    /\ ali.index > 0
    /\ ali.factors # EmptyStr

\* len(AliquotSequence._map): the number of fields of a row
row_len == 14

\* a row of the table that lacks its last field
ShortRow(ali) ==
    [seq |-> ali.seq, size |-> ali.size, index |-> ali.index, factors |-> ali.factors,
     res |-> ali.res, time |-> ali.time, priority |-> ali.priority, short |-> TRUE]

\* len(l) of a row handed to AliquotSequence(lst=l)
field_count(row) == IF "short" \in DOMAIN row THEN row_len - 1 ELSE row_len

\* AliquotSequence.__str__: the AllSeq.txt line of a valid record
str(ali) == <<ali.seq, ali.index, ali.size, ali.factors>>

\* ------------------------------------------------------------ JSON on disk
\* str.replace('],', '],\n') as it acts on the characters of one JSON string
RECURSIVE replace(_)
replace(s) ==
    IF Len(s) = 0 THEN <<>>
    ELSE IF Len(s) >= 2 /\ s[1] = "]" /\ s[2] = ","
         THEN <<"]", ",", NL>> \o replace(SubSeq(s, 3, Len(s)))
         ELSE <<s[1]>> \o replace(SubSeq(s, 2, Len(s)))

\* json.dumps of one record followed by the replace of unlock_write: numbers
\* are written as they are, strings get their characters rewritten by replace
dumps(ali) ==
    [ali EXCEPT !.factors = replace(ali.factors), !.res = replace(ali.res)]

\* json.load accepts a string only if it holds no raw control character
loadable_str(s) == \A i \in 1..Len(s) : s[i] # NL

loadable(rows) ==
    \A i \in 1..Len(rows) : loadable_str(rows[i].factors) /\ loadable_str(rows[i].res)

\* ------------------------------------------------------------------- _Heap
\* A heap entry is the list [priority, time, seq] of _make_heap_entry. The
\* field wired records the reference ali._heap_entry: it is TRUE when the
\* entry is the one the record now stored under its seq in the id map
\* points to (the only entry a drop of that seq can sabotage).
Entry(priority, time, seq, wired) ==
    [priority |-> priority, time |-> time, seq |-> seq, wired |-> wired]

\* a None that `_Heap([None]) * len(heap)` put in the list and the loop of
\* lock_read_init never replaced: not an entry; no entry has its priority
Unfilled == Entry(0 - 1, 0 - 1, None, FALSE)

\* list < list raises TypeError when the first differing items are None and an int
lt_raises(a, b) ==
    /\ a.priority = b.priority
    /\ a.time = b.time
    /\ a.seq # b.seq
    /\ (a.seq = None \/ b.seq = None)

\* list < list on [priority, time, seq]: the first differing item decides
lt(a, b) ==
    \/ a.priority < b.priority
    \/ a.priority = b.priority /\ a.time < b.time
    \/ a.priority = b.priority /\ a.time = b.time /\ a.seq < b.seq

\* heapq's siftdown: move the item at pos up while it is smaller than its parent
RECURSIVE siftdown(_, _, _)
siftdown(h, startpos, pos) ==
    IF pos <= startpos THEN [h |-> h, err |-> ""]
    ELSE LET parentpos == (pos - 1) \div 2
         IN IF lt_raises(At(h, pos), At(h, parentpos))
            THEN [h |-> h, err |-> "TypeError"]
            ELSE IF ~lt(At(h, pos), At(h, parentpos))
                 THEN [h |-> h, err |-> ""]
                 ELSE siftdown(Swap(h, parentpos, pos), startpos, parentpos)

\* heapq's siftup: bubble the smaller child up until a leaf, then siftdown
RECURSIVE siftup_from(_, _, _)
siftup_from(h, startpos, pos) ==
    LET endpos == Len(h)
        limit == endpos \div 2
        left == 2 * pos + 1
    IN IF pos >= limit THEN siftdown(h, startpos, pos)
       ELSE IF left + 1 < endpos /\ lt_raises(At(h, left), At(h, left + 1))
            THEN [h |-> h, err |-> "TypeError"]
            ELSE LET childpos == IF left + 1 < endpos /\ ~lt(At(h, left), At(h, left + 1))
                                 THEN left + 1 ELSE left
                 IN siftup_from(Swap(h, childpos, pos), startpos, childpos)

siftup(h, pos) == siftup_from(h, pos, pos)

\* heapq.heappush
heappush(h, item) == siftdown(Append(h, item), 0, Len(h))

\* heapq.heappop: IndexError on an empty list; the root is returned and the
\* last item sifted in from the top
heappop(h) ==
    IF Len(h) = 0 THEN [h |-> h, err |-> "IndexError", item |-> Entry(0, 0, None, FALSE)]
    ELSE LET lastelt == h[Len(h)]
             rest == SubSeq(h, 1, Len(h) - 1)
         IN IF Len(rest) = 0 THEN [h |-> rest, err |-> "", item |-> lastelt]
            ELSE LET r == siftup(Put(rest, 0, lastelt), 0)
                 IN [h |-> r.h, err |-> r.err, item |-> rest[1]]

\* heapq.heapify: siftup at every position from len // 2 - 1 down to 0
RECURSIVE heapify_from(_, _)
heapify_from(h, i) ==
    IF i < 0 THEN [h |-> h, err |-> ""]
    ELSE LET r == siftup(h, i)
         IN IF r.err # "" THEN r ELSE heapify_from(r.h, i - 1)

heapify(h) == heapify_from(h, (Len(h) \div 2) - 1)

\* ------------------------------------------------------------------- state
VARIABLES
    lockfile,   \* the lock file exists
    jsonfile,   \* AllSeq.json: [exists, aaData], aaData the rows as written
    txtfile,    \* AllSeq.txt: [exists, lines]
    data,       \* data[p]: self._data of process p's store, the id map
    heap,       \* heap[p]: self._heap of process p's store
    loaded,     \* loaded[p]: self._data and self._heap are not None
    have_lock,  \* have_lock[p]: p locked and loaded and has not written back since
    tries,      \* tries[p]: attempts left in the loop of __enter__ (0: not in it)
    pc,         \* pc[p]: how far p is inside an unlock_write followed statement by statement,
                \*        or "crashed" once the process has died
    last        \* the latest call: who, which method, how it ended, what it yielded

vars == <<lockfile, jsonfile, txtfile, data, heap, loaded, have_lock, tries, pc, last>>

\* ----------------------------------------------------------------- id map
EmptyMap == [k \in {} |-> None]

SetKey(d, k, v) == [x \in (DOMAIN d) \cup {k} |-> IF x = k THEN v ELSE d[x]]

DelKey(d, k) == [x \in (DOMAIN d) \ {k} |-> d[x]]

\* the outcome of a call, as kept in last
Call(p, op, err, out) ==
    [proc |-> p, op |-> op, err |-> err, locked |-> have_lock[p], out |-> out]

\* ----------------------------------------------------- heap entries of a store
\* _make_heap_entry: [ali.priority, ali.time, ali.seq], and ali._heap_entry = entry
make_heap_entry(ali) == Entry(ali.priority, ali.time, ali.seq, TRUE)

\* the record stored under seq is replaced: no record of the id map points to
\* the old entries of seq any more
unwire(h, seq) ==
    [i \in 1..Len(h) |-> IF h[i].seq = seq THEN [h[i] EXCEPT !.wired = FALSE] ELSE h[i]]

\* _sabotage_heap_entry: ali._heap_entry[2] = None, wherever in the list the entry is
sabotage_heap_entry(h, seq) ==
    [i \in 1..Len(h) |->
        IF h[i].seq = seq /\ h[i].wired
        THEN [h[i] EXCEPT !.seq = None, !.wired = FALSE]
        ELSE h[i]]

\* ---------------------------------------------------------- lock_read_init
\* the id map built by the loop of lock_read_init: a later row of a seq
\* replaces an earlier one
RECURSIVE rows_data(_, _)
rows_data(rows, d) ==
    IF Len(rows) = 0 THEN d
    ELSE rows_data(Tail(rows), SetKey(d, Head(rows).seq, Head(rows)))

\* the heap list built by the loop of lock_read_init, before heapify: one
\* entry per row, in file order
rows_heap(rows) ==
    [i \in 1..Len(rows) |->
        Entry(rows[i].priority, rows[i].time, rows[i].seq,
              \A j \in (i + 1)..Len(rows) : rows[j].seq # rows[i].seq)]

\* the store as the loop of lock_read_init leaves it when AliquotSequence(lst=dat)
\* raises ValueError at row k: the rows before k are in the id map and in the
\* list, the rest of the list is still None, heapify was not reached
rows_until(rows, k) ==
    LET before == SubSeq(rows, 1, k - 1)
    IN [lock |-> TRUE, data |-> rows_data(before, EmptyMap),
        heap |-> [i \in 1..Len(rows) |-> IF i < k THEN rows_heap(before)[i] ELSE Unfilled],
        loaded |-> TRUE, err |-> "ValueError"]

\* lock_read_init on a store (d, h, isloaded): _lock, json.load, the loop over
\* the rows, heapify. The lock file is created before the file is read and
\* no failure after that removes it.
read_init(lock, file, d, h, isloaded) ==
    LET raise(e) == [lock |-> TRUE, data |-> d, heap |-> h, loaded |-> isloaded, err |-> e]
        bad == {i \in 1..Len(file.aaData) : field_count(file.aaData[i]) # row_len}
    IN IF lock THEN raise("LockError")
       ELSE IF ~file.exists THEN raise("FileNotFoundError")
       ELSE IF ~loadable(file.aaData) THEN raise("JSONDecodeError")
       ELSE IF bad # {} THEN rows_until(file.aaData, CHOOSE k \in bad : \A j \in bad : k <= j)
       ELSE LET r == heapify(rows_heap(file.aaData))
            IN [lock |-> TRUE, data |-> rows_data(file.aaData, EmptyMap),
                heap |-> r.h, loaded |-> TRUE, err |-> r.err]

\* _lock alone: create the lock file, or LockError
lock(p) ==
    /\ tries[p] = 0
    /\ lockfile' = TRUE
    /\ last' = Call(p, "lock", IF lockfile THEN "LockError" ELSE "", <<>>)
    /\ UNCHANGED <<jsonfile, txtfile, data, heap, loaded, have_lock, tries, pc>>

\* the assignments of a lock_read_init by p that ended as r says
apply_read_init(p, r) ==
    /\ lockfile' = r.lock
    /\ data' = [data EXCEPT ![p] = r.data]
    /\ heap' = [heap EXCEPT ![p] = r.heap]
    /\ loaded' = [loaded EXCEPT ![p] = r.loaded]
    /\ have_lock' = [have_lock EXCEPT ![p] = IF r.err = "" THEN TRUE ELSE @]
    /\ UNCHANGED <<jsonfile, txtfile, pc>>

lock_read_init(p) ==
    LET r == read_init(lockfile, jsonfile, data[p], heap[p], loaded[p])
    IN /\ tries[p] = 0
       /\ apply_read_init(p, r)
       /\ last' = Call(p, "lock_read_init", r.err, <<>>)
       /\ UNCHANGED tries

\* acquire_lock(block_minutes=m) followed by the entry into the with
\* statement: __enter__ will make seconds // period + 1 attempts
acquire_lock(p, m) ==
    /\ tries[p] = 0
    /\ tries' = [tries EXCEPT ![p] = (m * 60) \div period + 1]
    /\ last' = Call(p, "acquire_lock", "", <<>>)
    /\ UNCHANGED <<lockfile, jsonfile, txtfile, data, heap, loaded, have_lock, pc>>

\* a loop of __enter__ that never counts its turns
enter_uncounted(p) ==
    LET r == read_init(lockfile, jsonfile, data[p], heap[p], loaded[p])
    IN /\ tries[p] > 0
       /\ apply_read_init(p, r)
       /\ tries' = [tries EXCEPT ![p] = IF r.err = "" THEN 0 ELSE @]
       /\ last' = Call(p, "enter", IF r.err = "" THEN "" ELSE "retry", <<>>)

\* one turn of the loop of __enter__: lock_read_init; a LockError is kept and
\* the loop sleeps and goes on (the last one is raised when the loop ends),
\* success returns, any other error leaves the loop at once
enter(p) ==
    LET r == read_init(lockfile, jsonfile, data[p], heap[p], loaded[p])
    IN /\ tries[p] > 0
       /\ apply_read_init(p, r)
       /\ tries' = [tries EXCEPT ![p] = IF r.err = "LockError" THEN @ - 1 ELSE 0]
       /\ last' = Call(p, "enter", IF r.err = "LockError" /\ tries[p] > 1 THEN "retry" ELSE r.err, <<>>)

\* ------------------------------------------------------------ unlock_write
\* [item[2] for item in self._heap if item[2] in self._data]: the list order
\* of the heap, not a drain of it
heap_seqs(h, d) == SelectSeq([i \in 1..Len(h) |-> h[i].seq], LAMBDA q : q \in DOMAIN d)

\* sorted(out, key=lambda ali: ali.seq): a stable insertion sort
RECURSIVE insert_by_seq(_, _)
insert_by_seq(sorted, ali) ==
    IF Len(sorted) = 0 THEN <<ali>>
    ELSE IF sorted[Len(sorted)].seq <= ali.seq THEN Append(sorted, ali)
    ELSE Append(insert_by_seq(SubSeq(sorted, 1, Len(sorted) - 1), ali), sorted[Len(sorted)])

RECURSIVE sort_by_seq(_)
sort_by_seq(out) ==
    IF Len(out) = 0 THEN <<>>
    ELSE insert_by_seq(sort_by_seq(SubSeq(out, 1, Len(out) - 1)), out[Len(out)])

\* write_out with the ids missing from the heap put first
write_out_missing_first(h, d, tail) ==
    LET seqs == tail \o heap_seqs(h, d)
    IN [i \in 1..Len(seqs) |-> d[seqs[i]]]

\* the records unlock_write writes, with the ids missing from the heap
\* appended in the order `tail` iterates them
write_out(h, d, tail) ==
    LET seqs == heap_seqs(h, d) \o tail
    IN [i \in 1..Len(seqs) |-> d[seqs[i]]]

\* unlock_write: item[2] of a None in the list is a TypeError before anything
\* is written; the json file is written first; the txt file is written
\* only if str() succeeds on every record; the lock file is removed last
unlock_write(p) ==
    /\ tries[p] = 0
    /\ IF ~loaded[p] \/ Unfilled \in Range(heap[p])
       THEN /\ last' = Call(p, "unlock_write", "TypeError", <<>>)
            /\ UNCHANGED <<lockfile, jsonfile, txtfile, have_lock>>
       ELSE \E tail \in Orders((DOMAIN data[p]) \ Range(heap_seqs(heap[p], data[p]))) :
            LET out == write_out(heap[p], data[p], tail)
                valid == \A i \in 1..Len(out) : is_valid(out[i])
                sorted == sort_by_seq(out)
            IN /\ jsonfile' = [exists |-> TRUE, aaData |-> [i \in 1..Len(out) |-> dumps(out[i])]]
               /\ txtfile' = IF valid
                             THEN [exists |-> TRUE,
                                   lines |-> [i \in 1..Len(sorted) |-> str(sorted[i])]]
                             ELSE txtfile
               /\ lockfile' = IF valid THEN FALSE ELSE lockfile
               /\ have_lock' = [have_lock EXCEPT ![p] = IF valid THEN FALSE ELSE @]
               /\ last' = Call(p, "unlock_write",
                               IF ~valid THEN "ValueError"
                               ELSE IF ~lockfile THEN "FileNotFoundError" ELSE "", <<>>)
    /\ UNCHANGED <<data, heap, loaded, tries, pc>>

\* -------------------------------------------------------------------- drop
\* the loop of drop over seqs: KeyError at the first seq that is not in the
\* id map, the seqs before it stay dropped
RECURSIVE drop_loop(_, _, _)
drop_loop(d, h, seqs) ==
    IF Len(seqs) = 0 THEN [data |-> d, heap |-> h, err |-> ""]
    ELSE IF Head(seqs) \notin DOMAIN d THEN [data |-> d, heap |-> h, err |-> "KeyError"]
    ELSE drop_loop(DelKey(d, Head(seqs)), sabotage_heap_entry(h, Head(seqs)), Tail(seqs))

drop(p, seqs) ==
    /\ tries[p] = 0
    /\ IF ~loaded[p]
       THEN /\ last' = Call(p, "drop", IF Len(seqs) = 0 THEN "" ELSE "AttributeError", <<>>)
            /\ UNCHANGED <<data, heap>>
       ELSE LET r == drop_loop(data[p], heap[p], seqs)
            IN /\ data' = [data EXCEPT ![p] = r.data]
               /\ heap' = [heap EXCEPT ![p] = r.heap]
               /\ last' = Call(p, "drop", r.err, <<>>)
    /\ UNCHANGED <<lockfile, jsonfile, txtfile, loaded, have_lock, tries, pc>>

\* ----------------------------------------------------------- push_new_info
\* push with the heappush forgotten: the record is stored, the heap is not touched
push_unpushed(d, h, ali) == [data |-> SetKey(d, ali.seq, ali), heap |-> h, err |-> ""]

\* self._data[ali.seq] = ali, then heappush of a new entry wired to ali; the
\* old entry of an overwritten seq stays in the heap as it is
push(d, h, ali) ==
    LET r == heappush(unwire(h, ali.seq), make_heap_entry(ali))
    IN [data |-> SetKey(d, ali.seq, ali), heap |-> r.h, err |-> r.err]

push_new_info(p, ali) ==
    /\ tries[p] = 0
    /\ IF ~loaded[p]
       THEN /\ last' = Call(p, "push_new_info", "TypeError", <<>>)
            /\ UNCHANGED <<data, heap>>
       ELSE LET r == push(data[p], heap[p], ali)
            IN /\ Len(heap[p]) < MaxHeap
               /\ data' = [data EXCEPT ![p] = r.data]
               /\ heap' = [heap EXCEPT ![p] = r.heap]
               /\ last' = Call(p, "push_new_info", r.err, <<>>)
    /\ UNCHANGED <<lockfile, jsonfile, txtfile, loaded, have_lock, tries, pc>>

\* -------------------------------------------------------------- pop_n_todo
\* the loop of pop_n_todo, run to its end: heappop until n entries with a
\* true seq were yielded; out lists the entries yielded
RECURSIVE pop_loop(_, _, _)
pop_loop(h, n, out) ==
    IF n <= 0 THEN [heap |-> h, out |-> out, err |-> ""]
    ELSE LET r == heappop(h)
         IN IF r.err # "" THEN [heap |-> r.h, out |-> out, err |-> r.err]
            ELSE IF r.item.seq # None
                 THEN pop_loop(r.h, n - 1, Append(out, [seq |-> r.item.seq, priority |-> r.item.priority]))
                 ELSE pop_loop(r.h, n, out)

pop_n_todo(p, n) ==
    /\ tries[p] = 0
    /\ IF ~loaded[p]
       THEN /\ last' = Call(p, "pop_n_todo", IF n <= 0 THEN "" ELSE "AttributeError", <<>>)
            /\ UNCHANGED heap
       ELSE LET r == pop_loop(heap[p], n, <<>>)
            IN /\ heap' = [heap EXCEPT ![p] = r.heap]
               /\ last' = Call(p, "pop_n_todo", r.err, r.out)
    /\ UNCHANGED <<lockfile, jsonfile, txtfile, data, loaded, have_lock, tries, pc>>

\* ------------------------------------------------------------------ inputs
\* block_minutes arguments of acquire_lock
BlockMinutes == {0}

\* the records handed to push_new_info where only the heap is looked at
PrioRecords == {AliquotSequence(q, 1, EmptyStr, pr, 0) : q \in Seqs, pr \in Prios}

\* the records handed to push_new_info where the files are looked at: complete
\* ones, one whose reservation holds "],", one that is not fully described
WriteRecords ==
    {AliquotSequence(1, 1, EmptyStr, 1, 0), AliquotSequence(2, 1, EmptyStr, 0, 0),
     AliquotSequence(2, 1, <<"]", ",">>, 0, 0), AliquotSequence(1, 0, EmptyStr, 1, 0)}

\* the seqs lists handed to drop (an empty list is a call that does nothing)
DropLists == SeqsUpTo(Seqs, MaxDrop) \ {<<>>}

\* AllSeq.json as an earlier run left it: absent, an empty table, two rows,
\* or three rows in heap order (the second row above the third)
InitFiles ==
    {[exists |-> FALSE, aaData |-> <<>>],
     [exists |-> TRUE, aaData |-> <<>>],
     [exists |-> TRUE, aaData |-> <<dumps(AliquotSequence(1, 1, EmptyStr, 0, 0)),
                                    dumps(AliquotSequence(2, 1, EmptyStr, 1, 0))>>],
     [exists |-> TRUE, aaData |-> <<dumps(AliquotSequence(1, 1, EmptyStr, 0, 0)),
                                    dumps(AliquotSequence(2, 1, EmptyStr, 1, 0)),
                                    dumps(AliquotSequence(3, 1, EmptyStr, 0, 0))>>]}

\* ----------------------------------------------------------- specifications
Init ==
    /\ lockfile = FALSE
    /\ jsonfile \in InitFiles
    /\ txtfile = [exists |-> FALSE, lines |-> <<>>]
    /\ data = [p \in Procs |-> EmptyMap]
    /\ heap = [p \in Procs |-> <<>>]
    /\ loaded = [p \in Procs |-> FALSE]
    /\ have_lock = [p \in Procs |-> FALSE]
    /\ tries = [p \in Procs |-> 0]
    /\ pc = [p \in Procs |-> "idle"]
    /\ last = [proc |-> 0, op |-> "init", err |-> "", locked |-> FALSE, out |-> <<>>]

\* one process: the store is loaded and its heap and id map are worked on
Next ==
    \/ lock_read_init(1)
    \/ \E seqs \in DropLists : drop(1, seqs)
    \/ \E ali \in PrioRecords : push_new_info(1, ali)
    \/ \E n \in 0..MaxN : pop_n_todo(1, n)

Spec == Init /\ [][Next]_vars

\* one process: load, change the records, write back, load again
NextWrite ==
    \/ lock_read_init(1)
    \/ \E seqs \in DropLists : drop(1, seqs)
    \/ \E ali \in WriteRecords : push_new_info(1, ali)
    \/ unlock_write(1)

WriteSpec == Init /\ [][NextWrite]_vars

\* one process: load, take work off the heap, drop, write back
NextDrain ==
    \/ lock_read_init(1)
    \/ \E seqs \in DropLists : drop(1, seqs)
    \/ \E n \in 0..MaxN : pop_n_todo(1, n)
    \/ unlock_write(1)

DrainSpec == Init /\ [][NextDrain]_vars

\* several processes on the same files
NextLock ==
    \E p \in Procs :
        \/ lock(p)
        \/ lock_read_init(p)
        \/ \E m \in BlockMinutes : acquire_lock(p, m)
        \/ enter(p)
        \/ unlock_write(p)
        \/ \E seqs \in DropLists : drop(p, seqs)

LockSpec == Init /\ [][NextLock]_vars

\* ------------------------------------------------------ a process dies
\* the process of a store that holds the lock dies: its memory is gone, the
\* files stay as they are, and nothing runs _unlock for it
crash(p) ==
    /\ tries[p] = 0 /\ have_lock[p]
    /\ pc' = [pc EXCEPT ![p] = "crashed"]
    /\ data' = [data EXCEPT ![p] = EmptyMap]
    /\ heap' = [heap EXCEPT ![p] = <<>>]
    /\ loaded' = [loaded EXCEPT ![p] = FALSE]
    /\ have_lock' = [have_lock EXCEPT ![p] = FALSE]
    /\ last' = Call(p, "crash", "", <<>>)
    /\ UNCHANGED <<lockfile, jsonfile, txtfile, tries>>

\* several processes on the same files, any of which may die while it holds
\* the lock; a dead process takes no further step
NextCrash ==
    \E p \in Procs :
        /\ pc[p] = "idle"
        /\ \/ lock(p)
           \/ lock_read_init(p)
           \/ \E m \in BlockMinutes : acquire_lock(p, m)
           \/ enter(p)
           \/ \E seqs \in DropLists : drop(p, seqs)
           \/ unlock_write(p)
           \/ crash(p)

CrashSpec == Init /\ [][NextCrash]_vars

\* ---------------------------------------------------------------- __exit__
\* the end of the with statement, on every way out of it: self.unlock_write()
exit(p) == unlock_write(p)

\* one process inside with statements: acquire, change the records, leave
NextScope ==
    \/ \E m \in BlockMinutes : acquire_lock(1, m)
    \/ enter(1)
    \/ \E seqs \in DropLists : drop(1, seqs)
    \/ \E ali \in WriteRecords : push_new_info(1, ali)
    \/ exit(1)

ScopeSpec == Init /\ [][NextScope]_vars

\* ------------------------------------------------- waiting for the lock
\* block_minutes arguments where the loop of __enter__ is followed turn by turn
AcquireMinutes == {0, 1}

\* process 1 enters with statements, waiting or not, while process 2 takes
\* and gives back the lock by hand
NextAcquire ==
    \/ \E m \in AcquireMinutes : acquire_lock(1, m)
    \/ enter(1)
    \/ exit(1)
    \/ lock_read_init(2)
    \/ unlock_write(2)

\* the loop does not look at the table: it is followed on the smaller files
AcquireInit == Init /\ Len(jsonfile.aaData) <= 2

\* a process that has entered __enter__ goes on running its loop
AcquireLive == AcquireInit /\ [][NextAcquire]_vars /\ WF_vars(enter(1))

\* ------------------------------- unlock_write, statement by statement
\* AllSeq.json between open(self._jsonfile, 'w') and the end of f.write: cut
\* off, json.load fails on it
TornFile ==
    [exists |-> TRUE,
     aaData |-> <<[AliquotSequence(None, 0, EmptyStr, 0, 0) EXCEPT !.factors = <<NL>>]>>]

\* an unlock_write that gives the lock away when it opens AllSeq.json
open_json_unlocked(p) ==
    /\ pc[p] = "idle" /\ tries[p] = 0 /\ loaded[p] /\ have_lock[p]
    /\ jsonfile' = TornFile
    /\ lockfile' = FALSE
    /\ pc' = [pc EXCEPT ![p] = "open"]
    /\ UNCHANGED <<txtfile, data, heap, loaded, have_lock, tries, last>>

\* unlock_write by a process that holds the lock, up to open(self._jsonfile, 'w')
open_json(p) ==
    /\ pc[p] = "idle" /\ tries[p] = 0 /\ loaded[p] /\ have_lock[p]
    /\ jsonfile' = TornFile
    /\ pc' = [pc EXCEPT ![p] = "open"]
    /\ UNCHANGED <<lockfile, txtfile, data, heap, loaded, have_lock, tries, last>>

\* f.write(json_string) and the close of AllSeq.json
write_json(p) ==
    /\ pc[p] = "open"
    /\ \E tail \in Orders((DOMAIN data[p]) \ Range(heap_seqs(heap[p], data[p]))) :
           LET out == write_out(heap[p], data[p], tail)
           IN jsonfile' = [exists |-> TRUE, aaData |-> [i \in 1..Len(out) |-> dumps(out[i])]]
    /\ pc' = [pc EXCEPT ![p] = "json"]
    /\ UNCHANGED <<lockfile, txtfile, data, heap, loaded, have_lock, tries, last>>

\* the txt mirror: str() of the records sorted by seq; a record that is not
\* fully described ends the call with ValueError and the lock file stays
write_txt(p) ==
    /\ pc[p] = "json"
    /\ LET tail == CHOOSE t \in Orders((DOMAIN data[p]) \ Range(heap_seqs(heap[p], data[p]))) : TRUE
           out == write_out(heap[p], data[p], tail)
           valid == \A i \in 1..Len(out) : is_valid(out[i])
           sorted == sort_by_seq(out)
       IN IF valid
          THEN /\ txtfile' = [exists |-> TRUE, lines |-> [i \in 1..Len(sorted) |-> str(sorted[i])]]
               /\ pc' = [pc EXCEPT ![p] = "txt"]
               /\ UNCHANGED last
          ELSE /\ pc' = [pc EXCEPT ![p] = "idle"]
               /\ last' = Call(p, "unlock_write", "ValueError", <<>>)
               /\ UNCHANGED txtfile
    /\ UNCHANGED <<lockfile, jsonfile, data, heap, loaded, have_lock, tries>>

\* self._unlock(), the last statement of unlock_write
unlock(p) ==
    /\ pc[p] = "txt"
    /\ lockfile' = FALSE
    /\ have_lock' = [have_lock EXCEPT ![p] = FALSE]
    /\ pc' = [pc EXCEPT ![p] = "idle"]
    /\ last' = Call(p, "unlock_write", IF ~lockfile THEN "FileNotFoundError" ELSE "", <<>>)
    /\ UNCHANGED <<jsonfile, txtfile, data, heap, loaded, tries>>

\* the records pushed by the processes that share the files
ProtoRecords ==
    {AliquotSequence(1, 1, EmptyStr, 1, 0), AliquotSequence(2, 1, EmptyStr, 0, 0),
     AliquotSequence(1, 0, EmptyStr, 1, 0)}

\* several processes that keep to the protocol: a process changes and writes
\* the store only while it holds the lock, and makes one call at a time
NextProto ==
    \E p \in Procs :
        \/ pc[p] = "idle" /\ lock_read_init(p)
        \/ \E ali \in ProtoRecords : pc[p] = "idle" /\ have_lock[p] /\ push_new_info(p, ali)
        \/ open_json(p)
        \/ write_json(p)
        \/ write_txt(p)
        \/ unlock(p)

ProtoSpec == Init /\ [][NextProto]_vars

\* ------------------------------------------------------ loads that fail
\* AllSeq.json as something other than unlock_write may have left it: a row
\* that lacks a field after a good row, before a good row, and alone
LoadFiles ==
    InitFiles \cup
    {[exists |-> TRUE, aaData |-> <<dumps(AliquotSequence(1, 1, EmptyStr, 0, 0)),
                                    ShortRow(AliquotSequence(2, 1, EmptyStr, 1, 0))>>],
     [exists |-> TRUE, aaData |-> <<ShortRow(AliquotSequence(1, 1, EmptyStr, 0, 0)),
                                    dumps(AliquotSequence(2, 1, EmptyStr, 1, 0))>>],
     [exists |-> TRUE, aaData |-> <<ShortRow(AliquotSequence(2, 1, EmptyStr, 1, 0))>>],
     TornFile}

LoadInit ==
    /\ lockfile = FALSE
    /\ jsonfile \in LoadFiles
    /\ txtfile = [exists |-> FALSE, lines |-> <<>>]
    /\ data = [p \in Procs |-> EmptyMap]
    /\ heap = [p \in Procs |-> <<>>]
    /\ loaded = [p \in Procs |-> FALSE]
    /\ have_lock = [p \in Procs |-> FALSE]
    /\ tries = [p \in Procs |-> 0]
    /\ pc = [p \in Procs |-> "idle"]
    /\ last = [proc |-> 0, op |-> "init", err |-> "", locked |-> FALSE, out |-> <<>>]

\* several processes that load, directly or in a with statement, drop and
\* write back; none of them dies
NextLoad ==
    \E p \in Procs :
        \/ lock_read_init(p)
        \/ \E m \in BlockMinutes : acquire_lock(p, m)
        \/ enter(p)
        \/ \E seqs \in DropLists : drop(p, seqs)
        \/ unlock_write(p)

LoadSpec == LoadInit /\ [][NextLoad]_vars

\* ------------------------------------------- reserve_seqs, unreserve_seqs
\* the name arguments: two owners and the empty name
Owners == {EmptyStr, <<"a">>, <<"b">>}

\* the results of the two calls so far: the lists they return
NoLists == [DNEs |-> <<>>, already_owns |-> <<>>, other_owns |-> <<>>,
            not_reserveds |-> <<>>, wrong_reserveds |-> <<>>]

\* a reserve_seqs that takes a sequence over from its owner
reserve_one_takeover(d, name, seq, lists) ==
    IF seq \notin DOMAIN d
    THEN [data |-> d, lists |-> [lists EXCEPT !.DNEs = Append(@, seq)]]
    ELSE [data |-> [d EXCEPT ![seq].res = name], lists |-> lists]

\* one turn of the loop of reserve_seqs
reserve_one(d, name, seq, lists) ==
    IF seq \notin DOMAIN d
    THEN [data |-> d, lists |-> [lists EXCEPT !.DNEs = Append(@, seq)]]
    ELSE LET other == d[seq].res
         IN IF other = EmptyStr
            THEN [data |-> [d EXCEPT ![seq].res = name], lists |-> lists]
            ELSE IF name = other
            THEN [data |-> d, lists |-> [lists EXCEPT !.already_owns = Append(@, seq)]]
            ELSE [data |-> d, lists |-> [lists EXCEPT !.other_owns = Append(@, <<seq, other>>)]]

\* a reserve_seqs that stops at the first seq it cannot reserve
RECURSIVE reserve_loop_stopping(_, _, _, _)
reserve_loop_stopping(d, name, seqs, lists) ==
    IF Len(seqs) = 0 THEN [data |-> d, lists |-> lists]
    ELSE LET r == reserve_one(d, name, Head(seqs), lists)
         IN IF r.lists # lists THEN r
            ELSE reserve_loop_stopping(r.data, name, Tail(seqs), r.lists)

RECURSIVE reserve_loop(_, _, _, _)
reserve_loop(d, name, seqs, lists) ==
    IF Len(seqs) = 0 THEN [data |-> d, lists |-> lists]
    ELSE LET r == reserve_one(d, name, Head(seqs), lists)
         IN reserve_loop(r.data, name, Tail(seqs), r.lists)

\* the record of a reserve_seqs or unreserve_seqs call that last keeps
Request(name, seqs, lists) ==
    [name |-> name, seqs |-> seqs, DNEs |-> lists.DNEs,
     already_owns |-> lists.already_owns, other_owns |-> lists.other_owns,
     not_reserveds |-> lists.not_reserveds, wrong_reserveds |-> lists.wrong_reserveds]

\* reserve_seqs: the records are changed in place, the heap is not touched
reserve_seqs(p, name, seqs) ==
    /\ tries[p] = 0
    /\ IF ~loaded[p]
       THEN /\ last' = Call(p, "reserve_seqs", "AttributeError", Request(name, seqs, NoLists))
            /\ UNCHANGED data
       ELSE LET r == reserve_loop(data[p], name, seqs, NoLists)
            IN /\ data' = [data EXCEPT ![p] = r.data]
               /\ last' = Call(p, "reserve_seqs", "", Request(name, seqs, r.lists))
    /\ UNCHANGED <<lockfile, jsonfile, txtfile, heap, loaded, have_lock, tries, pc>>

\* an unreserve_seqs that clears whatever reservation it finds
unreserve_one_any(d, name, seq, lists) ==
    IF seq \notin DOMAIN d
    THEN [data |-> d, lists |-> [lists EXCEPT !.DNEs = Append(@, seq)]]
    ELSE IF d[seq].res = EmptyStr
    THEN [data |-> d, lists |-> [lists EXCEPT !.not_reserveds = Append(@, seq)]]
    ELSE [data |-> [d EXCEPT ![seq].res = EmptyStr], lists |-> lists]

\* one turn of the loop of unreserve_seqs
unreserve_one(d, name, seq, lists) ==
    IF seq \notin DOMAIN d
    THEN [data |-> d, lists |-> [lists EXCEPT !.DNEs = Append(@, seq)]]
    ELSE LET current == d[seq].res
         IN IF current = EmptyStr
            THEN [data |-> d, lists |-> [lists EXCEPT !.not_reserveds = Append(@, seq)]]
            ELSE IF name = current
            THEN [data |-> [d EXCEPT ![seq].res = EmptyStr], lists |-> lists]
            ELSE [data |-> d, lists |-> [lists EXCEPT !.wrong_reserveds = Append(@, <<seq, current>>)]]

RECURSIVE unreserve_loop(_, _, _, _)
unreserve_loop(d, name, seqs, lists) ==
    IF Len(seqs) = 0 THEN [data |-> d, lists |-> lists]
    ELSE LET r == unreserve_one(d, name, Head(seqs), lists)
         IN unreserve_loop(r.data, name, Tail(seqs), r.lists)

unreserve_seqs(p, name, seqs) ==
    /\ tries[p] = 0
    /\ IF ~loaded[p]
       THEN /\ last' = Call(p, "unreserve_seqs", "AttributeError", Request(name, seqs, NoLists))
            /\ UNCHANGED data
       ELSE LET r == unreserve_loop(data[p], name, seqs, NoLists)
            IN /\ data' = [data EXCEPT ![p] = r.data]
               /\ last' = Call(p, "unreserve_seqs", "", Request(name, seqs, r.lists))
    /\ UNCHANGED <<lockfile, jsonfile, txtfile, heap, loaded, have_lock, tries, pc>>

\* the tables the reservation calls start from: seqs 1 and 2, each free or
\* reserved by an owner
ResFiles ==
    {[exists |-> TRUE, aaData |-> <<dumps(AliquotSequence(1, 1, r1, 0, 0)),
                                    dumps(AliquotSequence(2, 1, r2, 1, 0))>>] :
        r1 \in Owners, r2 \in Owners}

\* the seqs lists handed to reserve_seqs and unreserve_seqs, in rising order
\* and with repeats: seq 3 is in no table
ResLists ==
    {seqs \in SeqsUpTo(Seqs \cup {3}, MaxDrop) \ {<<>>} :
        \A i \in 1..(Len(seqs) - 1) : seqs[i] <= seqs[i + 1]}

ResInit ==
    /\ lockfile = FALSE
    /\ jsonfile \in ResFiles
    /\ txtfile = [exists |-> FALSE, lines |-> <<>>]
    /\ data = [p \in Procs |-> EmptyMap]
    /\ heap = [p \in Procs |-> <<>>]
    /\ loaded = [p \in Procs |-> FALSE]
    /\ have_lock = [p \in Procs |-> FALSE]
    /\ tries = [p \in Procs |-> 0]
    /\ pc = [p \in Procs |-> "idle"]
    /\ last = [proc |-> 0, op |-> "init", err |-> "", locked |-> FALSE, out |-> <<>>]

\* one process: load, then reserve and unreserve
NextRes ==
    \/ lock_read_init(1)
    \/ \E name \in Owners, seqs \in ResLists : reserve_seqs(1, name, seqs)
    \/ \E name \in Owners, seqs \in ResLists : unreserve_seqs(1, name, seqs)

ResSpec == ResInit /\ [][NextRes]_vars

\* --------------------------------------- reservations.update_apply_all_res
\* a line of a mass reservation text that SEQ_REGEX does not match
Junk == 0

\* the iteration of a set of seqs, smallest first
in_order(S) == CHOOSE o \in Orders(S) : \A i \in 1..(Len(o) - 1) : o[i] < o[i + 1]

\* parse_mass_reservation, the loop over the lines. A repeated seq formats
\* its warning with `name` and a line that is no seq is tested with `re`:
\* neither name is defined in reservations.py, so both raise NameError
\* before dups or unknowns get an item
RECURSIVE parse_mass_reservation(_, _)
parse_mass_reservation(lines, current) ==
    IF Len(lines) = 0 THEN [current |-> current, dups |-> <<>>, unknowns |-> <<>>, err |-> ""]
    ELSE IF Head(lines) = Junk \/ Head(lines) \in current
         THEN [current |-> current, dups |-> <<>>, unknowns |-> <<>>, err |-> "NameError"]
         ELSE parse_mass_reservation(Tail(lines), current \cup {Head(lines)})

\* the first loop of update_apply_all_res, over mass_reses.items(): parse the
\* list, unreserve old - current, keep current - old for the last loop. An
\* error leaves the releases made for the reservees before it in place.
RECURSIVE mass_releases(_, _, _, _)
mass_releases(d, mass_reses, mass_adds, mass_reses_out) ==
    IF Len(mass_reses) = 0
    THEN [data |-> d, mass_adds |-> mass_adds, mass_reses_out |-> mass_reses_out, err |-> ""]
    ELSE LET reservee == Head(mass_reses)[1]
             parsed == parse_mass_reservation(Head(mass_reses)[2], {})
             old == {q \in DOMAIN d : d[q].res = reservee}
             drops == old \ parsed.current
             adds == parsed.current \ old
             dropres == unreserve_loop(d, reservee, in_order(drops), NoLists)
         IN IF parsed.err # ""
            THEN [data |-> d, mass_adds |-> mass_adds, mass_reses_out |-> mass_reses_out,
                  err |-> parsed.err]
            ELSE mass_releases(dropres.data, Tail(mass_reses),
                               Append(mass_adds, <<reservee, in_order(adds)>>),
                               Append(mass_reses_out, [reservee |-> reservee,
                                                       dropres |-> dropres.lists]))

\* the second loop, over thread_res: reserve the adds of a post, then
\* unreserve its drops, post after post
RECURSIVE thread_reses(_, _, _)
thread_reses(d, thread_res, out) ==
    IF Len(thread_res) = 0 THEN [data |-> d, out |-> out]
    ELSE LET post == Head(thread_res)
             addres == reserve_loop(d, post.name, post.adds, NoLists)
             dropres == unreserve_loop(addres.data, post.name, post.drops, NoLists)
         IN thread_reses(dropres.data, Tail(thread_res),
                         Append(out, [name |-> post.name, addres |-> addres.lists,
                                      dropres |-> dropres.lists]))

\* the third loop, over zip(mass_adds, mass_reses_out): reserve the adds kept
\* by the first loop
RECURSIVE mass_additions(_, _, _)
mass_additions(d, mass_adds, addres) ==
    IF Len(mass_adds) = 0 THEN [data |-> d, addres |-> addres]
    ELSE LET r == reserve_loop(d, Head(mass_adds)[1], Head(mass_adds)[2], NoLists)
         IN mass_additions(r.data, Tail(mass_adds), Append(addres, r.lists))

\* an update_apply_all_res that reserves the mass additions before it goes
\* through the thread
apply_all_res_adds_first(d, thread_res, mass_reses) ==
    LET first == mass_releases(d, mass_reses, <<>>, <<>>)
        third == mass_additions(first.data, first.mass_adds, <<>>)
        second == thread_reses(third.data, thread_res, <<>>)
    IN IF first.err # ""
       THEN [data |-> first.data, err |-> first.err, out |-> <<>>,
             mass_reses_out |-> first.mass_reses_out, addres |-> <<>>]
       ELSE [data |-> second.data, err |-> "", out |-> second.out,
             mass_reses_out |-> first.mass_reses_out, addres |-> third.addres]

\* the three loops of update_apply_all_res on the id map d
apply_all_res(d, thread_res, mass_reses) ==
    LET first == mass_releases(d, mass_reses, <<>>, <<>>)
        second == thread_reses(first.data, thread_res, <<>>)
        third == mass_additions(second.data, first.mass_adds, <<>>)
    IN IF first.err # ""
       THEN [data |-> first.data, err |-> first.err, out |-> <<>>,
             mass_reses_out |-> first.mass_reses_out, addres |-> <<>>]
       ELSE [data |-> third.data, err |-> "", out |-> second.out,
             mass_reses_out |-> first.mass_reses_out, addres |-> third.addres]

\* update_apply_all_res(seqinfo, last_pid, mass_reses) on the store of p, with
\* thread_res what spider_res_thread returned; last keeps the inputs, the id
\* map the run started from and the results. A store that is not loaded
\* fails at its first seqinfo.values() or at the first seq looked up. The
\* resdatetime attribute the run sets at its end is not part of the state.
update_apply_all_res(p, thread_res, mass_reses) ==
    /\ tries[p] = 0
    /\ IF ~loaded[p]
       THEN /\ last' = Call(p, "update_apply_all_res",
                            IF Len(mass_reses) > 0
                            THEN (IF parse_mass_reservation(mass_reses[1][2], {}).err # ""
                                  THEN "NameError" ELSE "AttributeError")
                            ELSE IF \E i \in 1..Len(thread_res) :
                                        Len(thread_res[i].adds) + Len(thread_res[i].drops) > 0
                                 THEN "AttributeError" ELSE "",
                            [thread_res |-> thread_res, mass_reses |-> mass_reses,
                             before |-> data[p], out |-> <<>>, mass_reses_out |-> <<>>,
                             addres |-> <<>>])
            /\ UNCHANGED data
       ELSE LET r == apply_all_res(data[p], thread_res, mass_reses)
            IN /\ data' = [data EXCEPT ![p] = r.data]
               /\ last' = Call(p, "update_apply_all_res", r.err,
                               [thread_res |-> thread_res, mass_reses |-> mass_reses,
                                before |-> data[p], out |-> r.out,
                                mass_reses_out |-> r.mass_reses_out, addres |-> r.addres])
    /\ UNCHANGED <<lockfile, jsonfile, txtfile, heap, loaded, have_lock, tries, pc>>

\* the names: two mass reservees, one of whom also posts in the thread, and
\* one more poster
Reservees == {<<"a">>, <<"b">>}

Posters == {<<"a">>, <<"c">>}

\* most lines the mass reservation texts of one run hold together
MaxLines == 2

\* longest list of posts the thread spider returns
MaxPosts == 1

\* the mass reservation texts: lines that are seq 1, seq 2 or no seq at all
MassTexts == SeqsUpTo(Seqs \cup {Junk}, MaxLines)

\* mass_reses.items(): no reservee, one, or the two in either order
MassReses ==
    {<<>>} \cup {<<<<n, t>>>> : n \in Reservees, t \in MassTexts}
           \cup {m \in {<<<<n1, t1>>, <<n2, t2>>>> :
                         n1 \in Reservees, n2 \in Reservees, t1 \in MassTexts, t2 \in MassTexts} :
                    m[1][1] # m[2][1] /\ Len(m[1][2]) + Len(m[2][2]) <= MaxLines}

\* the posts: a poster reserves seq 1 or nothing and releases seq 1 or nothing
Posts == [name : Posters, adds : {<<>>, <<1>>}, drops : {<<>>, <<1>>}]

ThreadReses == SeqsUpTo(Posts, MaxPosts)

\* the tables the update starts from: seqs 1 and 2, each free or reserved
ApplyFiles ==
    {[exists |-> TRUE, aaData |-> <<dumps(AliquotSequence(1, 1, r1, 0, 0)),
                                    dumps(AliquotSequence(2, 1, r2, 1, 0))>>] :
        r1 \in {EmptyStr} \cup Reservees, r2 \in {EmptyStr} \cup Reservees}

ApplyInit ==
    /\ lockfile = FALSE
    /\ jsonfile \in ApplyFiles
    /\ txtfile = [exists |-> FALSE, lines |-> <<>>]
    /\ data = [p \in Procs |-> EmptyMap]
    /\ heap = [p \in Procs |-> <<>>]
    /\ loaded = [p \in Procs |-> FALSE]
    /\ have_lock = [p \in Procs |-> FALSE]
    /\ tries = [p \in Procs |-> 0]
    /\ pc = [p \in Procs |-> "idle"]
    /\ last = [proc |-> 0, op |-> "init", err |-> "", locked |-> FALSE, out |-> <<>>]

\* the reservations script: the store is locked and loaded, then the update
\* is run on it
NextApply ==
    \/ lock_read_init(1)
    \/ /\ last.op = "lock_read_init" /\ last.err = ""
       /\ \E thread_res \in ThreadReses, mass_reses \in MassReses :
              update_apply_all_res(1, thread_res, mass_reses)

ApplySpec == ApplyInit /\ [][NextApply]_vars

\* ------------------------------------------------------------ find_merges
\* a record with its id attribute, the class the sequence belongs to
WithId(ali, id) == [f \in (DOMAIN ali) \cup {"id"} |-> IF f = "id" THEN id ELSE ali[f]]

\* the values of the id attribute: two classes, and None for a record without one
ClassIds == {None, 1, 2}

\* ids[ali.id].append(ali.seq) for the records in the order `keys`
RECURSIVE group_by_id(_, _, _)
group_by_id(d, keys, ids) ==
    IF Len(keys) = 0 THEN ids
    ELSE LET ali == d[Head(keys)]
             lst == IF ali.id \in DOMAIN ids THEN ids[ali.id] ELSE <<>>
         IN group_by_id(d, Tail(keys), SetKey(ids, ali.id, Append(lst, ali.seq)))

\* sorted(lst) for a list of seqs
RECURSIVE sorted(_)
sorted(lst) ==
    IF Len(lst) = 0 THEN <<>>
    ELSE LET m == CHOOSE x \in Range(lst) : \A y \in Range(lst) : x <= y
             i == CHOOSE j \in 1..Len(lst) : lst[j] = m
         IN <<m>> \o sorted(SubSeq(lst, 1, i - 1) \o SubSeq(lst, i + 1, Len(lst)))

\* a find_merges that also returns the classes of one record
merges_of_all(ids) ==
    {<<sorted(ids[c])[1], Tail(sorted(ids[c]))>> : c \in DOMAIN ids}

\* (lst[0], lst[1:]) for the sorted list of each id that has more than one seq
merges_of(ids) ==
    {<<sorted(ids[c])[1], Tail(sorted(ids[c]))>> : c \in {x \in DOMAIN ids : Len(ids[x]) > 1}}

\* a find_merges that also drops the seqs it reports as merged into another
find_merges_dropping(p) ==
    /\ tries[p] = 0 /\ loaded[p]
    /\ LET keys == CHOOSE o \in Orders(DOMAIN data[p]) : TRUE
           merges == merges_of(group_by_id(data[p], keys, EmptyMap))
           gone == CHOOSE o \in Orders(UNION {Range(pair[2]) : pair \in merges}) : TRUE
           r == drop_loop(data[p], heap[p], gone)
       IN /\ data' = [data EXCEPT ![p] = r.data]
          /\ heap' = [heap EXCEPT ![p] = r.heap]
          /\ last' = Call(p, "find_merges", "", merges)
    /\ UNCHANGED <<lockfile, jsonfile, txtfile, loaded, have_lock, tries, pc>>

\* find_merges: the tuple it returns is kept as the set of its pairs
find_merges(p) ==
    /\ tries[p] = 0
    /\ IF ~loaded[p]
       THEN last' = Call(p, "find_merges", "AttributeError", {})
       ELSE LET keys == CHOOSE o \in Orders(DOMAIN data[p]) : TRUE
            IN last' = Call(p, "find_merges", "", merges_of(group_by_id(data[p], keys, EmptyMap)))
    /\ UNCHANGED <<lockfile, jsonfile, txtfile, data, heap, loaded, have_lock, tries, pc>>

\* the tables of the seqs up to n: each seq is left out or is there with an
\* id, in rising order of seq
RECURSIVE MergeRows(_)
MergeRows(n) ==
    IF n = 0 THEN {<<>>}
    ELSE LET shorter == MergeRows(n - 1)
         IN shorter \cup
            {Append(rows, dumps(WithId(AliquotSequence(n, 1, EmptyStr, 0, 0), c))) :
                rows \in shorter, c \in ClassIds}

MergeFiles == {[exists |-> TRUE, aaData |-> rows] : rows \in MergeRows(4)}

MergeInit ==
    /\ lockfile = FALSE
    /\ jsonfile \in MergeFiles
    /\ txtfile = [exists |-> FALSE, lines |-> <<>>]
    /\ data = [p \in Procs |-> EmptyMap]
    /\ heap = [p \in Procs |-> <<>>]
    /\ loaded = [p \in Procs |-> FALSE]
    /\ have_lock = [p \in Procs |-> FALSE]
    /\ tries = [p \in Procs |-> 0]
    /\ pc = [p \in Procs |-> "idle"]
    /\ last = [proc |-> 0, op |-> "init", err |-> "", locked |-> FALSE, out |-> <<>>]

\* one process: load, drop, look for merges
NextMerge ==
    \/ lock_read_init(1)
    \/ \E seqs \in DropLists : drop(1, seqs)
    \/ find_merges(1)

MergeSpec == MergeInit /\ [][NextMerge]_vars

\* ----------------------------------------------------- calculate_priority
\* the defaults of the arguments of calculate_priority; res_factor = 1/2 is
\* kept as numerator and denominator
max_update_period == 90

begin_time_penalty == 30

res_factor == [num |-> 1, den |-> 2]

\* a record with the attributes calculate_priority reads: nzilch, and progress,
\* which is an int or a date string (kept as the days from that date to today)
WithProgress(ali, nzilch, progress) ==
    [f \in (DOMAIN ali) \cup {"nzilch", "progress"} |->
        IF f = "nzilch" THEN nzilch ELSE IF f = "progress" THEN progress ELSE ali[f]]

\* round(prio, 3) of the fraction num/den, in thousandths
round3(num, den) == (2 * 1000 * num + den) \div (2 * den)

\* calculate_priority; priorities are in thousandths here. The penalty branch
\* ends at its first statement, `days -= begin_time_penalty`: days is a local
\* name that was never bound (UnboundLocalError), and self.priority is not set
priority_of(ali, mup, btp, factor) ==
    LET prio == ali.nzilch
    IN IF ali.progress.isstr /\ ali.progress.deltadays > btp
       THEN [err |-> "UnboundLocalError", priority |-> ali.priority]
       ELSE IF ali.res # EmptyStr
       THEN [err |-> "", priority |-> round3(prio * factor.num, factor.den)]
       ELSE [err |-> "", priority |-> round3(prio, 1)]

\* ali.calculate_priority() on the record of seq in the id map of p: the
\* heap entry of the record keeps the priority it was made with
calculate_priority(p, seq) ==
    /\ tries[p] = 0 /\ loaded[p] /\ seq \in DOMAIN data[p]
    /\ LET r == priority_of(data[p][seq], max_update_period, begin_time_penalty, res_factor)
       IN /\ data' = [data EXCEPT ![p][seq].priority = r.priority]
          /\ last' = Call(p, "calculate_priority", r.err, <<seq>>)
    /\ UNCHANGED <<lockfile, jsonfile, txtfile, heap, loaded, have_lock, tries, pc>>

\* the records whose priority is calculated: stationary counts, a progress
\* that is an int or a date some days back, free or reserved
Zilches == {0, 1, 2, 5, 10}

Progresses ==
    {[isstr |-> FALSE, deltadays |-> 0]}
    \cup {[isstr |-> TRUE, deltadays |-> n] : n \in {0, 30, 31, 60, 90, 91}}

PrioFiles ==
    {[exists |-> TRUE,
      aaData |-> <<dumps(WithProgress(AliquotSequence(1, 1, r, 0, 0), z, g))>>] :
        r \in {EmptyStr, <<"a">>}, z \in Zilches, g \in Progresses}

PrioInit ==
    /\ lockfile = FALSE
    /\ jsonfile \in PrioFiles
    /\ txtfile = [exists |-> FALSE, lines |-> <<>>]
    /\ data = [p \in Procs |-> EmptyMap]
    /\ heap = [p \in Procs |-> <<>>]
    /\ loaded = [p \in Procs |-> FALSE]
    /\ have_lock = [p \in Procs |-> FALSE]
    /\ tries = [p \in Procs |-> 0]
    /\ pc = [p \in Procs |-> "idle"]
    /\ last = [proc |-> 0, op |-> "init", err |-> "", locked |-> FALSE, out |-> <<>>]

\* one process: load, calculate the priority of a record, write back
NextPrio ==
    \/ lock_read_init(1)
    \/ \E seq \in Seqs : calculate_priority(1, seq)
    \/ unlock_write(1)

PrioSpec == PrioInit /\ [][NextPrio]_vars

\* ------------------------------------------------------------------ claims
\* the seqs of the entries of a heap list that are not sabotaged
LiveSeqs(h) == {h[i].seq : i \in {j \in 1..Len(h) : h[j].seq # None}}

\* the number of entries of a heap list that carry seq
Count(h, seq) == Cardinality({i \in 1..Len(h) : h[i].seq = seq})

\* the methods that change the store or the files
MutatingOps == {"drop", "push_new_info", "unlock_write"}

\* C1: whatever lock, lock_read_init, acquire_lock and unlock_write calls
\* several processes make, at most one process is locked and loaded at a time.
C1_OneLockHolder == Cardinality({p \in Procs : have_lock[p]}) <= 1

\* C2: a mutating call (drop, push_new_info, unlock_write) on a store that does
\* not hold the lock fails (any error is counted as the lock error) and
\* changes neither the id map and heap, nor the files, nor the lock file.
C2_NoMutationWithoutLock ==
    [][(last'.op \in MutatingOps /\ ~have_lock[last'.proc])
        => (last'.err # "" /\ UNCHANGED <<data, heap, jsonfile, txtfile, lockfile>>)]_vars

\* every key of the id map is the seq of an entry that is not sabotaged
KeysCovered(d, h) == (DOMAIN d) \subseteq LiveSeqs(h)

C4_OneLiveEntryPerKey ==
    have_lock[1] =>
        /\ \A k \in DOMAIN data[1] : Count(heap[1], k) = 1
        /\ Cardinality({i \in 1..Len(heap[1]) : heap[1][i].seq # None})
              = Cardinality(DOMAIN data[1])

\* C5: pop_n_todo yields no dropped id: every seq it yields is a key of the
\* id map (the ids of the files and of the pushes are keys until dropped).
C5_PopYieldsNoDroppedId ==
    (last.op = "pop_n_todo" /\ last.locked)
        => \A i \in 1..Len(last.out) : last.out[i].seq \in DOMAIN data[1]

\* each entry of a heap list has a priority not below that of its parent
HeapOrdered(h) == \A i \in 2..Len(h) : h[i \div 2].priority <= h[i].priority

Nondecreasing(out) ==
    \A i \in 1..Len(out) : \A j \in i..Len(out) : out[i].priority <= out[j].priority

\* C6: the ids one pop_n_todo yields come in non-decreasing priority order,
\* the priority of an id being that of the record the id map holds for it.
C6_PopInPriorityOrder ==
    (last.op = "pop_n_todo" /\ last.locked) =>
        \A i \in 1..Len(last.out) : \A j \in i..Len(last.out) :
            (last.out[i].seq \in DOMAIN data[1] /\ last.out[j].seq \in DOMAIN data[1])
                => data[1][last.out[i].seq].priority <= data[1][last.out[j].seq].priority

\* the heap itself is sound: lock_read_init, push_new_info and drop leave the
\* heap list ordered by priority (no entry below its parent's priority), and
\* from such a list one pop_n_todo takes entries whose own priorities, the ones
\* they were pushed with, never decrease.
EntriesPoppedInPriorityOrder ==
    [][/\ (last'.op \in {"lock_read_init", "push_new_info", "drop"} /\ HeapOrdered(heap[1]))
            => HeapOrdered(heap'[1])
       /\ (last'.op = "pop_n_todo" /\ HeapOrdered(heap[1]))
            => Nondecreasing(last'.out)]_vars

\* C7: pop_n_todo on a locked store ends without an error, also when the
\* heap holds fewer than n entries that are not sabotaged.
C7_PopEndsNormally == (last.op = "pop_n_todo" /\ last.locked) => last.err = ""

\* unlock_write has just written AllSeq.json from a store that held the lock
Written == last.op = "unlock_write" /\ last.locked

\* the rows of AllSeq.json whose seq has an entry that is not sabotaged
RowsOfLive == SelectSeq(jsonfile.aaData, LAMBDA row : row.seq \in LiveSeqs(heap[1]))

\* C8 as stated: the rows unlock_write writes for the ids that have a live
\* heap entry are in non-decreasing priority order.
C8_WrittenInPriorityOrder == Written => Nondecreasing(RowsOfLive)

\* C8 as amended: the rows of the ids that have a live heap entry are written
\* in the order of their entries in the heap list, one row for each entry, and
\* the rows of the ids without a live entry follow them.
C8_WrittenInHeapListOrder ==
    Written =>
        LET rows == jsonfile.aaData
            ents == SelectSeq(heap[1], LAMBDA e : e.seq \in DOMAIN data[1])
        IN /\ Len(RowsOfLive) = Len(ents)
           /\ \A i \in 1..Len(ents) : RowsOfLive[i].seq = ents[i].seq
           /\ \A i \in 1..Len(rows) : \A j \in i..Len(rows) :
                  rows[j].seq \in LiveSeqs(heap[1]) => rows[i].seq \in LiveSeqs(heap[1])

\* C8 witness: a table was written in which the row of a live entry is
\* followed by the row of a live entry of lower priority
C8_Witness ==
    /\ Written
    /\ Len(RowsOfLive) >= 2
    /\ ~Nondecreasing(RowsOfLive)

\* C9: after push_new_info and drop calls the table unlock_write writes holds
\* each key of the id map in exactly one row, that row is the record now
\* stored under the key, and no row is of an id that is not a key.
C9_EachKeyWrittenOnce ==
    Written =>
        LET rows == jsonfile.aaData
        IN /\ \A k \in DOMAIN data[1] :
                  /\ Cardinality({i \in 1..Len(rows) : rows[i].seq = k}) = 1
                  /\ \A i \in 1..Len(rows) : rows[i].seq = k => rows[i] = dumps(data[1][k])
           /\ \A i \in 1..Len(rows) : rows[i].seq \in DOMAIN data[1]

\* the fields of a record that a load does not recompute
Kept(ali) == [ali EXCEPT !.priority = 0, !.time = 0]

\* C10: when unlock_write has succeeded on a store of complete records, the
\* lock_read_init that follows it succeeds and yields an id map with the same
\* keys and the same field values (priority and time aside) as before the write.
C10_RoundTrip ==
    [][(/\ Written /\ last.err = ""
        /\ \A k \in DOMAIN data[1] : is_valid(data[1][k])
        /\ last'.op = "lock_read_init")
        => /\ last'.err = ""
           /\ DOMAIN data'[1] = DOMAIN data[1]
           /\ \A k \in DOMAIN data[1] : Kept(data'[1][k]) = Kept(data[1][k])]_vars

\* C11: a lock_read_init (by hand or through the with statement) followed at
\* once by unlock_write leaves AllSeq.json as it was: the same rows in the
\* same order.
C11_LoadWriteKeepsFile ==
    [][(/\ last.op \in {"lock_read_init", "enter"} /\ last.err = ""
        /\ last'.op = "unlock_write" /\ last'.err = "")
        => jsonfile' = jsonfile]_vars

\* C12: a drop that fails on a seq that is not in the id map leaves the id map
\* and the heap as they were before the call.
C12_DropAllOrNothing ==
    [][(last'.op = "drop" /\ last'.err = "KeyError") => UNCHANGED <<data, heap>>]_vars

\* C13: when a with statement that got the lock is left, the lock file is
\* gone, whatever push_new_info and drop did to the store inside it.
C13_ScopeExitReleasesLock == (last.op = "unlock_write" /\ last.locked) => ~lockfile

\* acquire_lock has planned the attempts of __enter__
AcquirePlanned ==
    (last'.op = "acquire_lock") =>
        (tries'[1] >= 1 /\ \E m \in AcquireMinutes : tries'[1] = (m * 60) \div period + 1)

\* the ways one turn of the loop of __enter__ can end
EnterTurn ==
    (last'.op = "enter") =>
        (\/ last'.err = "" /\ tries'[1] = 0 /\ loaded'[1] /\ have_lock'[1] /\ ~lockfile
         \/ last'.err = "retry" /\ lockfile /\ tries[1] > 1 /\ tries'[1] = tries[1] - 1
         \/ last'.err = "LockError" /\ lockfile /\ tries[1] = 1 /\ tries'[1] = 0
         \/ last'.err \in {"FileNotFoundError", "JSONDecodeError"} /\ ~lockfile /\ tries'[1] = 0)

\* C14: acquire_lock plans at least one attempt and no more than
\* block_minutes * 60 / period + 1; each turn of __enter__ either returns the
\* loaded store, or found the lock held and uses up one attempt, raising the
\* LockError when it was the last one, or ends on an error of reading the
\* file; and every __enter__ that was begun comes to an end.
C14_AcquireTerminates == [][AcquirePlanned /\ EnterTurn]_vars /\ (tries[1] > 0 ~> tries[1] = 0)

\* C14 witness: sixty attempts of one __enter__ have found the lock held and
\* the last one is left
C14_Witness == last.op = "enter" /\ last.err = "retry" /\ tries[1] = 1 /\ lockfile

\* C15: the lock file is removed only after AllSeq.json and the txt mirror
\* are written in full: when a process gets the lock and loads, no process is
\* inside an unlock_write, no other process holds the lock, the txt mirror
\* (if there is one) lists the very rows of AllSeq.json, and the id map
\* loaded is the table that AllSeq.json holds.
C15_LoadReadsLastWrite ==
    [][(/\ last'.op = "lock_read_init" /\ last'.err = ""
        /\ ~have_lock[last'.proc] /\ have_lock'[last'.proc])
        => LET rows == sort_by_seq(jsonfile.aaData)
           IN /\ \A q \in Procs : pc[q] = "idle"
              /\ \A q \in Procs \ {last'.proc} : ~have_lock[q]
              /\ txtfile.exists => txtfile.lines = [i \in 1..Len(rows) |-> str(rows[i])]
              /\ data'[last'.proc] = rows_data(jsonfile.aaData, EmptyMap)]_vars

\* C15 witness: process 2 has loaded the one-row table that process 1 made
\* and wrote back (no table is found with one row at the start)
C15_Witness ==
    /\ last.op = "lock_read_init" /\ last.err = "" /\ last.proc = 2
    /\ have_lock[2] /\ loaded[1] /\ txtfile.exists
    /\ Len(jsonfile.aaData) = 1
    /\ data[2] = data[1]

\* the members of a set of positions, in rising order
IdxSeq(I) == [k \in 1..Cardinality(I) |-> CHOOSE i \in I : Cardinality({j \in I : j < i}) = k - 1]

\* the reservation that turn i of reserve_seqs(name, seqs) finds on seqs[i],
\* a known seq: an earlier turn has reserved a seq that was free
FoundByReserve(d, name, seqs, i) ==
    IF d[seqs[i]].res = EmptyStr /\ \E j \in 1..(i - 1) : seqs[j] = seqs[i]
    THEN name ELSE d[seqs[i]].res

FoundByUnreserve(d, name, seqs, i) ==
    IF d[seqs[i]].res = name /\ \E j \in 1..(i - 1) : seqs[j] = seqs[i]
    THEN EmptyStr ELSE d[seqs[i]].res

C18_ReservationsExclusive ==
    [][\A q \in (DOMAIN data[1]) \cap (DOMAIN data'[1]) :
          data'[1][q].res # data[1][q].res =>
              \/ /\ last'.op = "reserve_seqs"
                 /\ data[1][q].res = EmptyStr /\ data'[1][q].res = last'.out.name
              \/ /\ last'.op = "unreserve_seqs"
                 /\ data'[1][q].res = EmptyStr /\ data[1][q].res = last'.out.name]_vars

\* C18 witness: a seq reserved by one owner was given up by that owner and
\* then reserved by the other one
C18_Witness ==
    /\ last.op = "reserve_seqs" /\ last.err = "" /\ loaded[1]
    /\ last.out.name = <<"b">> /\ last.out.seqs = <<1>>
    /\ last.out.already_owns = <<>> /\ last.out.other_owns = <<>>
    /\ jsonfile.aaData[1].res = <<"a">> /\ data[1][1].res = <<"b">>

\* the seqs of the records of an id map that carry the id of record q
ClassOf(d, q) == {x \in DOMAIN d : d[x].id = d[q].id}

\* C19: find_merges returns one pair for each id that more than one record
\* carries, and no other pair: the first part of the pair is the smallest
\* seq of those records, the second part lists all their other seqs.
C19_FindMerges ==
    (last.op = "find_merges" /\ loaded[1]) =>
        LET d == data[1]
        IN /\ last.err = ""
           /\ \A pair \in last.out :
                  /\ pair[1] \in DOMAIN d
                  /\ Cardinality(ClassOf(d, pair[1])) > 1
                  /\ \A x \in ClassOf(d, pair[1]) : pair[1] <= x
                  /\ Range(pair[2]) = ClassOf(d, pair[1]) \ {pair[1]}
                  /\ Len(pair[2]) = Cardinality(ClassOf(d, pair[1])) - 1
           /\ \A q \in DOMAIN d :
                  Cardinality({pair \in last.out : pair[1] \in ClassOf(d, q)})
                      = IF Cardinality(ClassOf(d, q)) > 1 THEN 1 ELSE 0

\* C19 witness: of four records three share an id: one pair, the smallest
\* seq first, and no pair for the fourth record
C19_Witness ==
    /\ last.op = "find_merges" /\ last.err = "" /\ loaded[1]
    /\ DOMAIN data[1] = 1..4
    /\ last.out = {<<1, <<2, 4>>>>}

\* C20: for a record whose progress is a date more than begin_time_penalty
\* and at most max_update_period days back, calculate_priority sets
\* priority = nzilch * (1 - (deltadays - begin_time_penalty) /
\* (max_update_period - begin_time_penalty)), times res_factor when the record
\* is reserved, rounded to 3 decimals (10 stationary updates, 60 days, not
\* reserved: 5.0; 90 days: 0).
C20_PriorityDecay ==
    (last.op = "calculate_priority") =>
        LET ali == data[1][last.out[1]]
            days == ali.progress.deltadays
            reserved == ali.res # EmptyStr
            num == ali.nzilch * 1000 * (max_update_period - days)
                       * (IF reserved THEN res_factor.num ELSE 1)
            den == (max_update_period - begin_time_penalty)
                       * (IF reserved THEN res_factor.den ELSE 1)
            diff == ali.priority * den - num
        IN (ali.progress.isstr /\ days > begin_time_penalty /\ days <= max_update_period)
              => (last.err = "" /\ 2 * diff <= den /\ -2 * diff <= den)

\* C21: a load that meets a row of the wrong length fails and leaves no record
\* of the file in the id map or in the heap of the store
C21_MalformedLoadLeavesNothing ==
    (last.op \in {"lock_read_init", "enter"} /\ last.err = "ValueError") =>
        /\ data[last.proc] = EmptyMap
        /\ \A i \in 1..Len(heap[last.proc]) : heap[last.proc][i].seq = None

\* C26: while no process has died, a lock file that exists belongs to a store
\* that is locked and loaded (a load that fails takes its lock file with it)
C26_LockFileHasHolder ==
    lockfile => \E p \in Procs : have_lock[p] /\ loaded[p]

\* the lock file exists, a process died while it held the lock, and no living
\* store holds it
Stale == lockfile /\ (\E p \in Procs : pc[p] = "crashed") /\ (\A p \in Procs : ~have_lock[p])

\* C22: a stale lock is permanent: no step of the program removes the lock
\* file, and every lock, lock_read_init and __enter__ attempt ends in LockError
StaleLockStays ==
    Stale => /\ lockfile'
             /\ last'.op \in {"lock", "lock_read_init", "enter"} => last'.err = "LockError"

C22_StaleLockPermanent == [][StaleLockStays]_vars

\* C27: the ids one pop_n_todo yields are pairwise different
C27_PopYieldsEachIdOnce ==
    last.op = "pop_n_todo" =>
        \A i, j \in 1..Len(last.out) : last.out[i].seq = last.out[j].seq => i = j

\* the step is the exit of a with statement whose body has just failed
ExitAfterBodyError ==
    /\ have_lock[1]
    /\ last.op \in {"drop", "push_new_info"} /\ last.err # ""
    /\ last'.op = "unlock_write"

\* C28: leaving a with statement whose body failed writes the id map as it is
\* then to AllSeq.json and removes the lock file, and raises nothing of its
\* own, so that the error of the body is the one the caller gets
ExitWritesAndUnlocks ==
    ExitAfterBodyError =>
        /\ \E tail \in Orders((DOMAIN data[1]) \ Range(heap_seqs(heap[1], data[1]))) :
               LET out == write_out(heap[1], data[1], tail)
               IN jsonfile' = [exists |-> TRUE, aaData |-> [i \in 1..Len(out) |-> dumps(out[i])]]
        /\ ~lockfile'
        /\ last'.err = ""

C28_ExitAfterErrorWritesState == [][ExitWritesAndUnlocks]_vars

\* C23: a call of find_merges leaves the id map, the fields of every record
\* and the heap as they were
FindMergesLeavesStore ==
    last'.op = "find_merges" => data' = data /\ heap' = heap

C23_FindMergesFrame == [][FindMergesLeavesStore]_vars

\* C23 witness: find_merges has reported a merge on a store from which a
\* record was dropped before, and the records it reported are still there
C23_Witness ==
    /\ last.op = "find_merges" /\ last.err = "" /\ loaded[1]
    /\ last.out # {}
    /\ \E i \in 1..Len(heap[1]) : heap[1][i].seq = None
    /\ \A pair \in last.out : Range(pair[2]) \subseteq DOMAIN data[1]

\* the seqs a mass reservation text lists
Listed(text) == Range(text) \ {Junk}

\* a post of the thread names seq q
Touches(post, q) == q \in Range(post.adds) \cup Range(post.drops)

\* C24: after a run of update_apply_all_res for one mass reservee whose text
\* lists the seqs C, with no post of the thread by the reservee or naming a
\* seq of C or a seq the reservee held, the reservee holds no seq outside C,
\* holds every seq of C
\* that exists and was free or theirs, and a second run on the same inputs
\* changes no reservation
C24_MassReconciliation ==
    (last.op = "update_apply_all_res" /\ loaded[1] /\ Len(last.out.mass_reses) = 1) =>
        LET reservee == last.out.mass_reses[1][1]
            C == Listed(last.out.mass_reses[1][2])
            before == last.out.before
            old == {q \in DOMAIN before : before[q].res = reservee}
            again == apply_all_res(data[1], last.out.thread_res, last.out.mass_reses)
        IN (\A i \in 1..Len(last.out.thread_res) :
                /\ last.out.thread_res[i].name # reservee
                /\ \A q \in C \cup old : ~Touches(last.out.thread_res[i], q)) =>
               /\ \A q \in DOMAIN data[1] : data[1][q].res = reservee => q \in C
               /\ \A q \in C \cap DOMAIN before :
                      before[q].res \in {EmptyStr, reservee} => data[1][q].res = reservee
               /\ again.data = data[1]

\* a run of update_apply_all_res on a loaded store that ended normally
RunDone == last.op = "update_apply_all_res" /\ last.err = "" /\ loaded[1]

\* post k is the first post of the thread that reserves q
FirstToAdd(k, q) ==
    /\ q \in Range(last.out.thread_res[k].adds)
    /\ \A i \in 1..(k - 1) : q \notin Range(last.out.thread_res[i].adds)

\* the reserve_seqs call whose lists are `lists` reserved q
Got(lists, q) ==
    /\ q \notin Range(lists.DNEs) \cup Range(lists.already_owns)
    /\ \A i \in 1..Len(lists.other_owns) : lists.other_owns[i][1] # q

====
